---------------------------- MODULE Spec2Model ----------------------------
(***************************************************************************)
(* Schema-per-branch preview deployments: the schema-name resolver         *)
(* (src/lib/schema-utils.ts), the ORM configuration                        *)
(* (src/lib/mikro-orm.config.ts), the build-time migration script          *)
(* (scripts/prepare-preview-db.ts) and the pull-request-closed cleanup     *)
(* (.github/workflows/cleanup-preview.yml, quoted in README.md).           *)
(*                                                                         *)
(* Strings are sequences of one-character strings, so that replacing,      *)
(* lowercasing, truncating and concatenating are computed, not assumed.    *)
(* An environment variable is <<>> when it is not set and <<s>> when it    *)
(* is set to the string s.                                                 *)
(***************************************************************************)
EXTENDS Integers, Sequences, FiniteSets, TLC

VARIABLES
    callerEnv,      \* environment of a process that calls getSchemaName()
    resolved,       \* <<>> before the call, <<name>> after it
    dbUrl,          \* <<>> before the configuration module is evaluated, then
                    \* <<result of getDatabaseUrl()>>
    app,            \* the runtime process: the module variable orm of db.ts,
                    \* the MikroORM.init calls made and the getORM callers
    cfg,            \* which mikro-orm.config.ts the checkout holds
    proc,           \* the build (migrate) processes, see IdleProc
    db,             \* the database: each existing schema and its contents
    closed,         \* history: pull requests whose closed-event cleanup has run
                    \* with none of their builds running, and no build of
                    \* theirs has created a schema since
    createdFor,     \* history: the schemas builds of each pull request created
    cleanup         \* <<>> before any cleanup run, then <<n, status, started>>:
                    \* the pull request and the outcome of the latest cleanup
                    \* run, and the builds that had been started when it ran

vars == <<callerEnv, resolved, dbUrl, app, cfg, proc, db, closed, createdFor, cleanup>>

resolverVars == <<callerEnv, resolved, dbUrl, app>>
buildVars == <<cfg, proc, db, closed, createdFor, cleanup>>

-----------------------------------------------------------------------------
(* Characters and strings *)

Upper == <<"A","B","C","D","E","F","G","H","I","J","K","L","M",
           "N","O","P","Q","R","S","T","U","V","W","X","Y","Z">>
Lower == <<"a","b","c","d","e","f","g","h","i","j","k","l","m",
           "n","o","p","q","r","s","t","u","v","w","x","y","z">>
Digits == {"0","1","2","3","4","5","6","7","8","9"}

Range(s) == {s[i] : i \in DOMAIN s}
UpperSet == Range(Upper)
LowerSet == Range(Lower)

\* String.prototype.toLowerCase on one ASCII character
LowerChar(c) ==
    IF c \in UpperSet THEN Lower[CHOOSE i \in DOMAIN Upper : Upper[i] = c] ELSE c

\* the regular expression class [a-zA-Z0-9_]
IsWordChar(c) == c \in UpperSet \cup LowerSet \cup Digits \cup {"_"}

Min(a, b) == IF a < b THEN a ELSE b

\* s.substring(1, n): a truncation that starts one character late
PrefixFromOne(s, n) == SubSeq(s, 2, Min(n, Len(s)))

\* s.substring(0, n)
Prefix(s, n) == SubSeq(s, 1, Min(n, Len(s)))

\* c repeated n times
Repeat(c, n) == [i \in 1..n |-> c]

Includes(s, c) == \E i \in DOMAIN s : s[i] = c

\* a test for "is set" (!== undefined) in place of truthiness
IsDefined(v) == v # <<>>

\* JavaScript truthiness of process.env.X: undefined and "" are both falsy
Truthy(v) == v # <<>> /\ v[1] # <<>>

PUBLIC == <<"p","u","b","l","i","c">>
PR_ == <<"p","r","_">>

-----------------------------------------------------------------------------
(* src/lib/schema-utils.ts *)

SanitizeLimit == 60

\* .replace(/[\/\-]/g, '_')
ReplaceSlashDash(s) == [i \in DOMAIN s |-> IF s[i] \in {"/", "-"} THEN "_" ELSE s[i]]

\* .replace(/[^a-zA-Z0-9_]/g, '_')
ReplaceOther(s) == [i \in DOMAIN s |-> IF IsWordChar(s[i]) THEN s[i] ELSE "_"]

\* a sanitizer that forgets to lowercase
KeepCase(s) == s

\* .toLowerCase()
toLowerCase(s) == [i \in DOMAIN s |-> LowerChar(s[i])]

sanitizeBranchName(branch) ==
    LET sanitized ==
            Prefix(toLowerCase(ReplaceOther(ReplaceSlashDash(branch))), SanitizeLimit)
    IN  IF sanitized # <<>> THEN sanitized ELSE PUBLIC

\* a resolver that looks at the pull-request id before the override
getSchemaNamePrFirst(e) ==
    IF Truthy(e.VERCEL_GIT_PULL_REQUEST_ID)
    THEN PR_ \o e.VERCEL_GIT_PULL_REQUEST_ID[1]
    ELSE IF Truthy(e.DB_SCHEMA) THEN e.DB_SCHEMA[1]
    ELSE IF Truthy(e.VERCEL_GIT_COMMIT_REF)
         THEN sanitizeBranchName(e.VERCEL_GIT_COMMIT_REF[1])
    ELSE PUBLIC

\* a resolver that prefers the branch name to the pull-request id
getSchemaNameBranchFirst(e) ==
    IF Truthy(e.DB_SCHEMA) THEN e.DB_SCHEMA[1]
    ELSE IF Truthy(e.VERCEL_GIT_COMMIT_REF)
         THEN sanitizeBranchName(e.VERCEL_GIT_COMMIT_REF[1])
    ELSE IF Truthy(e.VERCEL_GIT_PULL_REQUEST_ID)
         THEN PR_ \o e.VERCEL_GIT_PULL_REQUEST_ID[1]
    ELSE PUBLIC

\* a resolver without the final return: no signal gives no name
getSchemaNameNoDefault(e) ==
    IF Truthy(e.DB_SCHEMA) THEN e.DB_SCHEMA[1]
    ELSE IF Truthy(e.VERCEL_GIT_PULL_REQUEST_ID)
         THEN PR_ \o e.VERCEL_GIT_PULL_REQUEST_ID[1]
    ELSE IF Truthy(e.VERCEL_GIT_COMMIT_REF)
         THEN sanitizeBranchName(e.VERCEL_GIT_COMMIT_REF[1])
    ELSE <<>>

getSchemaName(e) ==
    IF Truthy(e.DB_SCHEMA) THEN e.DB_SCHEMA[1]
    ELSE IF Truthy(e.VERCEL_GIT_PULL_REQUEST_ID)
         THEN PR_ \o e.VERCEL_GIT_PULL_REQUEST_ID[1]
    ELSE IF Truthy(e.VERCEL_GIT_COMMIT_REF)
         THEN sanitizeBranchName(e.VERCEL_GIT_COMMIT_REF[1])
    ELSE PUBLIC

-----------------------------------------------------------------------------
(* src/lib/mikro-orm.config.ts *)

QMARK == "?"
AMP == "&"
SCHEMA_EQ == <<"s","c","h","e","m","a","=">>

\* a separator that ignores the query string the URL already has
SeparatorAlwaysQ(baseUrl) == <<QMARK>>

\* baseUrl.includes('?') ? '&' : '?'
Separator(baseUrl) == IF Includes(baseUrl, QMARK) THEN <<AMP>> ELSE <<QMARK>>

\* getDatabaseUrl(): <<"ok", url>>, or <<"throw">> for 'DATABASE_URL is not set'
getDatabaseUrl(e) ==
    IF Truthy(e.DATABASE_URL_WITH_SCHEMA)
    THEN <<"ok", e.DATABASE_URL_WITH_SCHEMA[1]>>
    ELSE IF ~Truthy(e.DATABASE_URL)
         THEN <<"throw">>
         ELSE LET baseUrl == e.DATABASE_URL[1]
              IN  <<"ok", baseUrl \o Separator(baseUrl) \o SCHEMA_EQ \o getSchemaName(e)>>

\* index of the first c in s, 0 when there is none
IndexOf(s, c) ==
    IF Includes(s, c)
    THEN CHOOSE i \in DOMAIN s : s[i] = c /\ \A j \in 1..(i-1) : s[j] # c
    ELSE 0

After(s, k) == SubSeq(s, k + 1, Len(s))

HasPrefix(s, p) == Len(s) >= Len(p) /\ SubSeq(s, 1, Len(p)) = p

\* the value of the first schema=... parameter of a query string, <<>> if none
RECURSIVE SchemaParam(_)
SchemaParam(q) ==
    LET k == IndexOf(q, AMP)
        first == IF k = 0 THEN q ELSE SubSeq(q, 1, k - 1)
    IN  IF HasPrefix(first, SCHEMA_EQ) THEN <<After(first, Len(SCHEMA_EQ))>>
        ELSE IF k = 0 THEN <<>>
        ELSE SchemaParam(After(q, k))

\* the schema a connection URL selects: its ?schema= parameter, else the
\* database's default schema
UrlSchema(url) ==
    LET k == IndexOf(url, QMARK)
        v == IF k = 0 THEN <<>> ELSE SchemaParam(After(url, k))
    IN  IF v = <<>> THEN PUBLIC ELSE v[1]

\* The two configuration modules of the repository.  "url" is
\* src/lib/mikro-orm.config.ts with getDatabaseUrl (clientUrl carries the
\* schema); "schema" is the module that sets schema and search_path.
ConfigFiles == {"url", "schema"}

\* a configuration whose migration-tracking table is kept in public for
\* every deployment
LoadConfigPublicTracking(file, e) ==
    <<"ok", [schema |-> PUBLIC, searchPath |-> getSchemaName(e)]>>

\* Evaluating the configuration module at import: <<"throw">>, or
\* <<"ok", [schema, searchPath]>>: the namespace of the tracking table and
\* of the queries (schema) and the namespace statements run in (searchPath).
LoadConfig(file, e) ==
    IF file = "url"
    THEN LET u == getDatabaseUrl(e)
         IN  IF u[1] = "throw" THEN <<"throw">>
             ELSE <<"ok", [schema |-> UrlSchema(u[2]), searchPath |-> UrlSchema(u[2])]>>
    ELSE <<"ok", [schema |-> getSchemaName(e), searchPath |-> getSchemaName(e)]>>

-----------------------------------------------------------------------------
(* The database: a function from each existing schema to its contents.      *)
(* applied: the rows of the schema's mikro_orm_migrations table, in the     *)
(* order they were written; tables: the migrations whose table exists;     *)
(* rows: the number of rows of the todo table.                              *)

NumMigrations == 2
MaxRows == 1

\* the migration files, in file-name order; migration 1 is
\* Migration20260122182028 (create table "todo")
Migrations == 1..NumMigrations

EmptyNs == [applied |-> <<>>, tables |-> {}, rows |-> 0]

Exists(d, n) == n \in DOMAIN d

\* CREATE SCHEMA "n" without IF NOT EXISTS: an error when n exists
CreateSchemaStrict(d, n) ==
    IF Exists(d, n) THEN <<"error", d>> ELSE <<"ok", d @@ (n :> EmptyNs)>>

\* CREATE SCHEMA IF NOT EXISTS "n"
CreateSchemaIfNotExists(d, n) ==
    IF Exists(d, n) THEN <<"ok", d>> ELSE <<"ok", d @@ (n :> EmptyNs)>>

\* DROP SCHEMA "n" CASCADE without IF EXISTS: an error when n does not exist
DropSchemaCascade(d, n) ==
    IF Exists(d, n) THEN <<"ok", [m \in DOMAIN d \ {n} |-> d[m]]>> ELSE <<"error", d>>

\* DROP SCHEMA IF EXISTS "n" without CASCADE: an error when n holds objects
DropSchemaIfExistsRestrict(d, n) ==
    IF Exists(d, n) /\ (d[n].tables # {} \/ d[n].applied # <<>>)
    THEN <<"error", d>>
    ELSE <<"ok", [m \in DOMAIN d \ {n} |-> d[m]]>>

\* DROP SCHEMA IF EXISTS "n" CASCADE
DropSchemaIfExistsCascade(d, n) == <<"ok", [m \in DOMAIN d \ {n} |-> d[m]]>>

\* the migrations with no row in the tracking table of schema n, in
\* file-name order
PendingIn(d, n) ==
    LET done == Range(d[n].applied)
        F[k \in 0..NumMigrations] ==
            IF k = 0 THEN <<>>
            ELSE IF k \in done THEN F[k-1] ELSE Append(F[k-1], k)
    IN  F[NumMigrations]

\* a migrator that keeps one tracking table, in public, for every schema
ApplyMigrationSharedTracking(d, t, s, m) ==
    IF ~Exists(d, t) \/ ~Exists(d, s) \/ m \in d[s].tables
    THEN <<"error", d>>
    ELSE LET d1 == [d EXCEPT ![s].tables = @ \cup {m}]
         IN  <<"ok", [d1 EXCEPT ![PUBLIC].applied = Append(@, m)]>>

\* executing migration m with tracking table in schema t and statements in
\* schema s: its table is created in s and a row is written in t; an error
\* when a schema is missing or the table already exists
ApplyMigration(d, t, s, m) ==
    IF ~Exists(d, t) \/ ~Exists(d, s) \/ m \in d[s].tables
    THEN <<"error", d>>
    ELSE LET d1 == [d EXCEPT ![s].tables = @ \cup {m}]
         IN  <<"ok", [d1 EXCEPT ![t].applied = Append(@, m)]>>

-----------------------------------------------------------------------------
(* scripts/prepare-preview-db.ts: the build processes *)

Procs == {1, 2}
PRs == {7, 42}

DigitStr == <<"0","1","2","3","4","5","6","7","8","9">>

\* the decimal digits of a pull-request number
RECURSIVE PrDigits(_)
PrDigits(n) ==
    IF n < 10 THEN <<DigitStr[n + 1]>>
    ELSE PrDigits(n \div 10) \o <<DigitStr[(n % 10) + 1]>>

FEATURE_X == <<"f","e","a","t","u","r","e","/","x">>
FIX_Y == <<"F","i","x","-","Y">>
BranchOf(n) == IF n = 7 THEN FEATURE_X ELSE FIX_Y

DB_URL == <<"d","b">>
DEV == <<"d","e","v">>
DEV_URL == DB_URL \o <<QMARK>> \o SCHEMA_EQ \o DEV

MkEnv(o, p, b, u, w) ==
    [DB_SCHEMA |-> o, VERCEL_GIT_PULL_REQUEST_ID |-> p,
     VERCEL_GIT_COMMIT_REF |-> b, DATABASE_URL |-> u,
     DATABASE_URL_WITH_SCHEMA |-> w]

\* the environments a build of pull request n may run in: a preview build
\* of the pull request, a push before the pull request exists (branch
\* only), a build with the DB_SCHEMA override, builds with the
\* DATABASE_URL_WITH_SCHEMA override, and builds without DATABASE_URL
BuildEnvs(n) ==
    LET id == <<PrDigits(n)>>
        ref == <<BranchOf(n)>>
    IN  { MkEnv(<<>>, id, ref, <<DB_URL>>, <<>>),
          MkEnv(<<>>, <<>>, ref, <<DB_URL>>, <<>>),
          MkEnv(<<PUBLIC>>, id, ref, <<DB_URL>>, <<>>),
          MkEnv(<<>>, id, ref, <<DB_URL>>, <<DEV_URL>>),
          MkEnv(<<PUBLIC>>, <<>>, <<>>, <<DB_URL>>, <<DEV_URL>>),
          MkEnv(<<>>, id, ref, <<>>, <<>>),
          MkEnv(<<>>, id, ref, <<>>, <<DEV_URL>>) }

NoEnv ==
    [DB_SCHEMA |-> <<>>, VERCEL_GIT_PULL_REQUEST_ID |-> <<>>,
     VERCEL_GIT_COMMIT_REF |-> <<>>, DATABASE_URL |-> <<>>,
     DATABASE_URL_WITH_SCHEMA |-> <<>>]

NoConfig == [schema |-> <<>>, searchPath |-> <<>>]

\* pc: idle, init, create, pending, up, apply, close, exited
\* existed, upCalled, appliedNow, failedAt, error record what the run observed
\* and did; error is "config" (a missing setting), "db" (the database
\* refused or was unreachable) or "stmt" (the statement itself failed)
IdleProc ==
    [pc |-> "idle", pr |-> 0, env |-> NoEnv, schemaName |-> <<>>,
     ormConfig |-> NoConfig, pending |-> <<>>, queue |-> <<>>,
     exitCode |-> <<>>, conn |-> FALSE,
     existed |-> FALSE, upCalled |-> FALSE, appliedNow |-> <<>>,
     failedAt |-> "", error |-> ""]

Set(r, p) == proc' = [proc EXCEPT ![r] = p]

Running(r) == proc[r].pc \notin {"idle", "exited"}

\* a failure path that reports success
FailAsSuccess(p, at, err) ==
    [p EXCEPT !.pc = "exited", !.exitCode = <<0>>, !.failedAt = at, !.error = err]

\* console.error(...); process.exit(1), reached from the step named at
Fail(p, at, err) ==
    [p EXCEPT !.pc = "exited", !.exitCode = <<1>>, !.failedAt = at, !.error = err]

\* a script without the DATABASE_URL check of runMigrations
StartNoCheck(r) ==
    /\ proc[r].pc = "idle"
    /\ \E n \in PRs : \E e \in BuildEnvs(n) :
         LET c == LoadConfig(cfg, e)
             p0 == [IdleProc EXCEPT !.pr = n, !.env = e]
         IN  IF c[1] = "throw"
             THEN Set(r, Fail(p0, "import", "config"))
             ELSE Set(r, [p0 EXCEPT !.ormConfig = c[2],
                                    !.schemaName = getSchemaName(e),
                                    !.pc = "init"])
    /\ UNCHANGED <<cfg, db, closed, createdFor, resolverVars, cleanup>>

\* The process starts: the configuration module is evaluated at import
\* (an exception there ends the process with status 1), then runMigrations
\* resolves schemaName and checks DATABASE_URL.
Start(r) ==
    /\ proc[r].pc = "idle"
    /\ \E n \in PRs : \E e \in BuildEnvs(n) :
         LET c == LoadConfig(cfg, e)
             p0 == [IdleProc EXCEPT !.pr = n, !.env = e]
         IN  IF c[1] = "throw"
             THEN Set(r, Fail(p0, "import", "config"))
             ELSE LET p1 == [p0 EXCEPT !.ormConfig = c[2],
                                       !.schemaName = getSchemaName(e)]
                  IN  IF ~Truthy(e.DATABASE_URL)
                      THEN Set(r, Fail(p1, "check", "config"))
                      ELSE Set(r, [p1 EXCEPT !.pc = "init"])
    /\ UNCHANGED <<cfg, db, closed, createdFor, resolverVars, cleanup>>

\* a script that goes from MikroORM.init straight to the pending query,
\* leaving the create statement out
ConnectSkipCreate(r) ==
    /\ proc[r].pc = "init"
    /\ \E ok \in BOOLEAN :
         IF ok THEN Set(r, [proc[r] EXCEPT !.pc = "pending", !.conn = TRUE])
               ELSE Set(r, Fail(proc[r], "init", "db"))
    /\ UNCHANGED <<cfg, db, closed, createdFor, resolverVars, cleanup>>

\* const orm = await MikroORM.init(config)
Connect(r) ==
    /\ proc[r].pc = "init"
    /\ \E ok \in BOOLEAN :
         IF ok THEN Set(r, [proc[r] EXCEPT !.pc = "create", !.conn = TRUE])
               ELSE Set(r, Fail(proc[r], "init", "db"))
    /\ UNCHANGED <<cfg, db, closed, createdFor, resolverVars, cleanup>>

\* await orm.em.getConnection().execute(`CREATE SCHEMA IF NOT EXISTS "${schemaName}"`)
CreateSchema(r) ==
    /\ proc[r].pc = "create"
    /\ \E ok \in BOOLEAN :
         LET res == CreateSchemaIfNotExists(db, proc[r].schemaName)
         IN  IF ok /\ res[1] = "ok"
             THEN /\ Set(r, [proc[r] EXCEPT !.pc = "pending",
                                            !.existed = Exists(db, proc[r].schemaName)])
                  /\ db' = res[2]
                  /\ createdFor' =
                       IF Exists(db, proc[r].schemaName) THEN createdFor
                       ELSE [createdFor EXCEPT ![proc[r].pr] = @ \cup {proc[r].schemaName}]
                  /\ closed' =
                       IF Exists(db, proc[r].schemaName) THEN closed
                       ELSE closed \ {proc[r].pr}
             ELSE /\ Set(r, Fail(proc[r], "create", IF ok THEN "stmt" ELSE "db"))
                  /\ UNCHANGED <<db, createdFor, closed>>
    /\ UNCHANGED <<cfg, resolverVars, cleanup>>

\* a script that calls migrator.up() whatever the pending count is
GetPendingAlwaysUp(r) ==
    /\ proc[r].pc = "pending"
    /\ \E ok \in BOOLEAN :
         IF ok /\ Exists(db, proc[r].ormConfig.schema)
         THEN Set(r, [proc[r] EXCEPT
                        !.pending = PendingIn(db, proc[r].ormConfig.schema),
                        !.pc = "up"])
         ELSE Set(r, Fail(proc[r], "pending", IF ok THEN "stmt" ELSE "db"))
    /\ UNCHANGED <<cfg, db, closed, createdFor, resolverVars, cleanup>>

\* a script that takes a lock on its schema before the pending query and
\* holds it until close: it waits while another run of the schema is
\* between its pending query and its exit
GetPendingLocked(r) ==
    /\ proc[r].pc = "pending"
    /\ \A q \in Procs \ {r} :
           ~(/\ proc[q].pc \in {"up", "apply", "close"}
             /\ proc[q].ormConfig.schema = proc[r].ormConfig.schema)
    /\ \E ok \in BOOLEAN :
         IF ok /\ Exists(db, proc[r].ormConfig.schema)
         THEN LET pend == PendingIn(db, proc[r].ormConfig.schema)
              IN  Set(r, [proc[r] EXCEPT !.pending = pend,
                                         !.pc = IF Len(pend) > 0 THEN "up" ELSE "close"])
         ELSE Set(r, Fail(proc[r], "pending", IF ok THEN "stmt" ELSE "db"))
    /\ UNCHANGED <<cfg, db, closed, createdFor, resolverVars, cleanup>>

\* const pending = await migrator.getPendingMigrations(); the script goes on
\* to migrator.up() only when pending.length > 0; the migrator needs
\* its schema to exist ("MikroORM requires explicit schema creation")
GetPending(r) ==
    /\ proc[r].pc = "pending"
    /\ \E ok \in BOOLEAN :
         IF ok /\ Exists(db, proc[r].ormConfig.schema)
         THEN LET pend == PendingIn(db, proc[r].ormConfig.schema)
              IN  Set(r, [proc[r] EXCEPT !.pending = pend,
                                         !.pc = IF Len(pend) > 0 THEN "up" ELSE "close"])
         ELSE Set(r, Fail(proc[r], "pending", IF ok THEN "stmt" ELSE "db"))
    /\ UNCHANGED <<cfg, db, closed, createdFor, resolverVars, cleanup>>

\* await migrator.up(): the migrator reads the tracking table again and
\* queues every migration that has no row
Up(r) ==
    /\ proc[r].pc = "up"
    /\ \E ok \in BOOLEAN :
         IF ok /\ Exists(db, proc[r].ormConfig.schema)
         THEN LET q == PendingIn(db, proc[r].ormConfig.schema)
              IN  Set(r, [proc[r] EXCEPT !.upCalled = TRUE, !.queue = q,
                                         !.pc = IF Len(q) > 0 THEN "apply" ELSE "close"])
         ELSE Set(r, Fail([proc[r] EXCEPT !.upCalled = TRUE], "up", IF ok THEN "stmt" ELSE "db"))
    /\ UNCHANGED <<cfg, db, closed, createdFor, resolverVars, cleanup>>

\* migrator.up() executes the next queued migration and records it; an
\* error ends up() and reaches the catch block
Apply(r) ==
    /\ proc[r].pc = "apply"
    /\ \E ok \in BOOLEAN :
         LET m == Head(proc[r].queue)
             res == ApplyMigration(db, proc[r].ormConfig.schema,
                                   proc[r].ormConfig.searchPath, m)
         IN  IF ok /\ res[1] = "ok"
             THEN /\ db' = res[2]
                  /\ Set(r, [proc[r] EXCEPT
                               !.appliedNow = Append(@, m),
                               !.queue = Tail(@),
                               !.pc = IF Len(proc[r].queue) > 1 THEN "apply" ELSE "close"])
             ELSE /\ Set(r, Fail(proc[r], "up", "stmt"))
                  /\ UNCHANGED db
    /\ UNCHANGED <<cfg, closed, createdFor, resolverVars, cleanup>>

\* a script that ignores a failing orm.close
CloseIgnoreFailure(r) ==
    /\ proc[r].pc = "close"
    /\ \E ok \in BOOLEAN :
         IF ok
         THEN Set(r, [proc[r] EXCEPT !.pc = "exited", !.exitCode = <<0>>, !.conn = FALSE])
         ELSE Set(r, [proc[r] EXCEPT !.pc = "exited", !.exitCode = <<0>>,
                                     !.failedAt = "close", !.error = "db"])
    /\ UNCHANGED <<cfg, db, closed, createdFor, resolverVars, cleanup>>

\* await orm.close(true), then the process ends with status 0
Close(r) ==
    /\ proc[r].pc = "close"
    /\ \E ok \in BOOLEAN :
         IF ok
         THEN Set(r, [proc[r] EXCEPT !.pc = "exited", !.exitCode = <<0>>, !.conn = FALSE])
         ELSE Set(r, Fail(proc[r], "close", "db"))
    /\ UNCHANGED <<cfg, db, closed, createdFor, resolverVars, cleanup>>

Build(r) ==
    \/ Start(r)
    \/ Connect(r)
    \/ CreateSchema(r)
    \/ GetPending(r)
    \/ Up(r)
    \/ Apply(r)
    \/ Close(r)

-----------------------------------------------------------------------------
(* .github/workflows/cleanup-preview.yml and the preview runtime *)

\* "pr_${{ github.event.pull_request.number }}"
CleanupSchema(n) == PR_ \o PrDigits(n)

\* the builds that have been started
Started == {r \in Procs : proc[r].pc # "idle"}

\* pull request n is closed: psql "$DATABASE_URL" -c 'DROP SCHEMA IF EXISTS
\* "pr_<n>" CASCADE'; psql may fail to reach the database
Teardown(n) ==
    /\ \E ok \in BOOLEAN :
         LET res == DropSchemaIfExistsCascade(db, CleanupSchema(n))
         IN  IF ok /\ res[1] = "ok"
             THEN /\ db' = res[2]
                  /\ cleanup' = <<n, "ok", Started>>
                  /\ closed' = IF \E r \in Procs : Running(r) /\ proc[r].pr = n
                               THEN closed
                               ELSE closed \cup {n}
             ELSE /\ cleanup' = <<n, IF ok THEN "stmt" ELSE "db", Started>>
                  /\ UNCHANGED <<db, closed>>
    /\ UNCHANGED <<cfg, proc, createdFor, resolverVars>>

\* addTodo of a deployment whose ORM is scoped to schema n
AddTodo(n) ==
    /\ Exists(db, n)
    /\ 1 \in db[n].tables
    /\ db[n].rows < MaxRows
    /\ db' = [db EXCEPT ![n].rows = @ + 1]
    /\ UNCHANGED <<cfg, proc, closed, createdFor, resolverVars, cleanup>>

InitBuild ==
    /\ cfg \in ConfigFiles
    /\ proc = [r \in Procs |-> IdleProc]
    /\ db = (PUBLIC :> EmptyNs)
    /\ closed = {}
    /\ createdFor = [n \in PRs |-> {}]
    /\ cleanup = <<>>

\* src/lib/db.ts: let orm = null; no MikroORM.init yet, no caller of getORM
Callers == {1, 2, 3}
IdleCaller == [pc |-> "idle", inst |-> 0, got |-> 0]
InitApp == [orm |-> 0, inits |-> 0, fails |-> 0, req |-> [c \in Callers |-> IdleCaller]]

Init ==
    /\ InitBuild
    /\ callerEnv = NoEnv
    /\ resolved = <<>>
    /\ dbUrl = <<>>
    /\ app = InitApp

\* the builds of this specification run one after the other
StartSeq(r) ==
    /\ \A q \in Procs : q < r => proc[q].pc = "exited"
    /\ \A q \in Procs : q > r => proc[q].pc = "idle"
    /\ Start(r)

Next ==
    \/ \E r \in Procs : StartSeq(r)
    \/ \E r \in Procs : Connect(r)
    \/ \E r \in Procs : CreateSchema(r)
    \/ \E r \in Procs : GetPending(r)
    \/ \E r \in Procs : Up(r)
    \/ \E r \in Procs : Apply(r)
    \/ \E r \in Procs : Close(r)
    \/ \E n \in PRs : Teardown(n)
    \/ \E n \in DOMAIN db : AddTodo(n)

Spec == Init /\ [][Next]_vars

\* Builds of different deployments run at the same time against the one
\* database: nothing in the script or the configuration serialises them.
NextInterleaved ==
    \/ \E r \in Procs : Start(r)
    \/ \E r \in Procs : Connect(r)
    \/ \E r \in Procs : CreateSchema(r)
    \/ \E r \in Procs : GetPending(r)
    \/ \E r \in Procs : Up(r)
    \/ \E r \in Procs : Apply(r)
    \/ \E r \in Procs : Close(r)

SpecInterleaved == Init /\ [][NextInterleaved]_vars

-----------------------------------------------------------------------------
(* A process that calls getSchemaName() (app/page.tsx Home, the script,    *)
(* the configuration module) in an arbitrary environment.                  *)

MaxLen == 3

InputChars == {"a", "Z", "7", "_", "/", "-", "!"}

\* every string over InputChars of length at most n
Strings(n) == UNION {[1..k -> InputChars] : k \in 0..n}

FEATURE_ADD_AUTH_BANG ==
    <<"F","e","a","t","u","r","e","/","A","d","d","-","A","u","t","h","!","!">>
FEATURE_AUTH == <<"f","e","a","t","u","r","e","/","a","u","t","h">>
PROD_DB == <<"P","r","o","d","-","D","B">>
FORTY_TWO == <<"4","2">>
PR_DASH_42 == <<"P","R","-","4","2">>
PG_CATALOG == <<"p","g","_","c","a","t","a","l","o","g">>
PG_DASH_CATALOG == <<"p","g","-","c","a","t","a","l","o","g">>
INFORMATION_SCHEMA ==
    <<"i","n","f","o","r","m","a","t","i","o","n","_","s","c","h","e","m","a">>

\* strings around the truncation limit and the identifier limit
LongStrings ==
    {Repeat(c, n) : c \in {"a", "Z", "-", "9"},
                    n \in {SanitizeLimit, SanitizeLimit + 1, SanitizeLimit + 4}}

BranchValues ==
    {<<>>} \cup {<<s>> : s \in Strings(MaxLen) \cup LongStrings
                               \cup {FEATURE_X, FEATURE_AUTH, FEATURE_ADD_AUTH_BANG,
                                     PR_DASH_42, PG_DASH_CATALOG}}

OverrideValues ==
    {<<>>, <<<<>>>>, <<PUBLIC>>, <<PROD_DB>>, <<INFORMATION_SCHEMA>>,
     <<Repeat("a", SanitizeLimit + 4)>>}

PrIdValues == {<<>>, <<<<>>>>, <<FORTY_TWO>>, <<PrDigits(7)>>, <<Repeat("9", SanitizeLimit + 1)>>}

CallerEnvs ==
    {MkEnv(o, p, b, <<DB_URL>>, <<>>) :
        o \in OverrideValues, p \in PrIdValues, b \in BranchValues}

InitResolve ==
    /\ callerEnv \in CallerEnvs
    /\ resolved = <<>>
    /\ dbUrl = <<>>
    /\ app = InitApp
    /\ InitBuild
    /\ cfg = "url"

\* const schemaName = getSchemaName()
Resolve ==
    /\ resolved = <<>>
    /\ resolved' = <<getSchemaName(callerEnv)>>
    /\ UNCHANGED <<callerEnv, dbUrl, app, buildVars>>

NextResolve == Resolve

SpecResolve == InitResolve /\ [][NextResolve]_vars

-----------------------------------------------------------------------------
(* Properties of the resolver, checked under SpecResolve *)

NoOverride == ~Truthy(callerEnv.DB_SCHEMA)
NoPrId == ~Truthy(callerEnv.VERCEL_GIT_PULL_REQUEST_ID)
BranchOnly == NoOverride /\ NoPrId /\ Truthy(callerEnv.VERCEL_GIT_COMMIT_REF)

\* C1: whenever DB_SCHEMA is non-empty, getSchemaName returns exactly that
\* value, unsanitized, whatever the pull-request id and the branch are.
C1_OverrideVerbatim ==
    (resolved # <<>> /\ Truthy(callerEnv.DB_SCHEMA))
        => resolved[1] = callerEnv.DB_SCHEMA[1]

\* override=public, pr-id=42, branch=feature/x has resolved to public, and
\* an override that a sanitizer would change has been returned as it is
C1_Witness ==
    \/ /\ callerEnv.DB_SCHEMA = <<PUBLIC>>
       /\ callerEnv.VERCEL_GIT_PULL_REQUEST_ID = <<FORTY_TWO>>
       /\ callerEnv.VERCEL_GIT_COMMIT_REF = <<FEATURE_X>>
       /\ resolved = <<PUBLIC>>
    \/ /\ callerEnv.DB_SCHEMA = <<PROD_DB>>
       /\ callerEnv.VERCEL_GIT_PULL_REQUEST_ID = <<FORTY_TWO>>
       /\ resolved = <<PROD_DB>>

\* C2: with no override and a non-empty VERCEL_GIT_PULL_REQUEST_ID,
\* getSchemaName returns 'pr_' followed by the id, branch or no branch.
C2_PrIdWins ==
    (resolved # <<>> /\ NoOverride /\ ~NoPrId)
        => resolved[1] = PR_ \o callerEnv.VERCEL_GIT_PULL_REQUEST_ID[1]

\* pr-id=42 with branch=feature/x has resolved to pr_42
C2_Witness ==
    /\ callerEnv.DB_SCHEMA = <<>>
    /\ callerEnv.VERCEL_GIT_PULL_REQUEST_ID = <<FORTY_TWO>>
    /\ callerEnv.VERCEL_GIT_COMMIT_REF = <<FEATURE_X>>
    /\ resolved = <<<<"p","r","_","4","2">>>>

\* the sanitizer the documentation describes: '/' and '-' become '_',
\* every other character outside [a-zA-Z0-9_] is deleted, the rest is
\* lowercased and cut to 60 characters; 'public' when nothing is left
ReferenceSanitize(s) ==
    LET t == Prefix(toLowerCase(SelectSeq(ReplaceSlashDash(s), IsWordChar)), SanitizeLimit)
    IN  IF t = <<>> THEN PUBLIC ELSE t

\* C3: when only the branch signal is present the resolved identifier is
\* the reference sanitizer's result (Feature/Add-Auth!! gives
\* feature_add_auth).
C3_BranchMatchesReference ==
    (resolved # <<>> /\ BranchOnly)
        => resolved[1] = ReferenceSanitize(callerEnv.VERCEL_GIT_COMMIT_REF[1])

\* the characters the sanitizer is documented to remove
Removed(c) == ~IsWordChar(c) /\ c \notin {"/", "-"}

\* C4: a non-empty branch made only of characters the sanitizer removes
\* resolves to 'public', never to an empty string.
C4_DisallowedOnlyIsPublic ==
    (/\ resolved # <<>>
     /\ BranchOnly
     /\ \A i \in DOMAIN callerEnv.VERCEL_GIT_COMMIT_REF[1] :
            Removed(callerEnv.VERCEL_GIT_COMMIT_REF[1][i]))
        => resolved[1] = PUBLIC

IdentifierLimit == 63

\* non-empty, at most 63 characters, only lowercase letters, digits and '_'
ValidIdentifier(s) ==
    /\ s # <<>>
    /\ Len(s) <= IdentifierLimit
    /\ \A i \in DOMAIN s : s[i] \in LowerSet \cup Digits \cup {"_"}

\* C6 as stated: for every combination of signals the result is a valid
\* identifier.
C6_AlwaysValid == resolved # <<>> => ValidIdentifier(resolved[1])

\* a pull-request number as the platform provides it: decimal digits, at
\* most 60 of them
NumericPrId(s) == Len(s) <= SanitizeLimit /\ \A i \in DOMAIN s : s[i] \in Digits

\* C6, amended: getSchemaName is total and never returns the empty string;
\* the result is a valid identifier whenever no override is present and the
\* pull-request id, if present, is a number of at most 60 digits; an
\* override is returned as it is, valid or not.
C6_ValidWithoutRawSignal ==
    resolved # <<>> =>
        /\ resolved[1] # <<>>
        /\ (NoOverride /\ (NoPrId \/ NumericPrId(callerEnv.VERCEL_GIT_PULL_REQUEST_ID[1])))
              => ValidIdentifier(resolved[1])
        /\ ~NoOverride => (ValidIdentifier(resolved[1])
                              <=> ValidIdentifier(callerEnv.DB_SCHEMA[1]))

\* a 64-character upper-case branch has resolved to 60 lower-case characters
C6_Witness ==
    /\ BranchOnly
    /\ callerEnv.VERCEL_GIT_COMMIT_REF = <<Repeat("Z", SanitizeLimit + 4)>>
    /\ resolved = <<Repeat("z", SanitizeLimit)>>

-----------------------------------------------------------------------------
(* Properties of the build and the cleanup, checked under Spec *)

\* C5: creation and teardown are symmetric: once the cleanup of pull
\* request n has run, with no build of n running and none having created a
\* schema since, no schema that a build of n created exists any more,
\* whatever signals the build saw.
C5_NoOrphan == \A n \in closed : createdFor[n] \cap DOMAIN db = {}

\* C7: in every run the schema of the CREATE SCHEMA statement, the schema
\* of the migrator's tracking table and the schema the migrations are
\* applied in are the same identifier.
C7_OneNamespace ==
    \A r \in Procs : Running(r) =>
        /\ proc[r].schemaName = proc[r].ormConfig.schema
        /\ proc[r].schemaName = proc[r].ormConfig.searchPath

\* C8: CREATE SCHEMA IF NOT EXISTS on a schema that already exists raises
\* no error of its own and leaves every table, row and tracking row as it
\* was.
C8_CreateIdempotent ==
    [][\A r \in Procs :
         (/\ proc[r].pc = "create"
          /\ proc'[r] # proc[r]
          /\ Exists(db, proc[r].schemaName))
            => /\ db' = db
               /\ \/ proc'[r].pc = "pending"
                  \/ proc'[r].error = "db"]_vars

\* a run has passed its create statement on a schema that existed and
\* held tracking rows, a table and a todo row
C8_Witness ==
    \E r \in Procs :
        /\ proc[r].pc = "pending"
        /\ proc[r].existed
        /\ Exists(db, proc[r].schemaName)
        /\ db[proc[r].schemaName].applied # <<>>
        /\ db[proc[r].schemaName].rows > 0

\* every migration file has a row in the tracking table of schema n
FullyMigrated(d, n) == Exists(d, n) /\ PendingIn(d, n) = <<>>

\* C9: a run that comes to a schema in which every migration is already
\* recorded (an earlier run applied them all) finds zero pending migrations, goes on to close without calling
\* migrator.up(), leaves the schema as it is and, when the database does
\* not fail it, exits with status 0.
C9_SecondRunNoOp ==
    [][\A r \in Procs :
         (/\ Running(r)
          /\ ~proc[r].upCalled
          /\ proc'[r] # proc[r]
          /\ FullyMigrated(db, proc[r].ormConfig.schema))
            => /\ Exists(db', proc[r].ormConfig.schema)
               /\ db'[proc[r].ormConfig.schema] = db[proc[r].ormConfig.schema]
               /\ proc'[r].appliedNow = <<>>
               /\ ~proc'[r].upCalled
               /\ proc[r].pc = "pending" =>
                     \/ proc'[r].pending = <<>> /\ proc'[r].pc = "close"
                     \/ proc'[r].error = "db"
               /\ proc[r].pc = "close" =>
                     \/ proc'[r].pc = "exited" /\ proc'[r].exitCode = <<0>>
                     \/ proc'[r].error = "db"]_vars

\* the second build has exited with status 0, having applied nothing, in a
\* schema the first build had fully migrated
C9_Witness ==
    /\ proc[1].pc = "exited" /\ proc[1].exitCode = <<0>>
    /\ Len(proc[1].appliedNow) = NumMigrations
    /\ proc[2].pc = "exited" /\ proc[2].exitCode = <<0>>
    /\ proc[2].failedAt = ""
    /\ proc[2].ormConfig.schema = proc[1].ormConfig.schema
    /\ proc[2].pending = <<>>
    /\ ~proc[2].upCalled
    /\ FullyMigrated(db, proc[2].ormConfig.schema)

Ascending(q) == \A i, j \in DOMAIN q : i < j => q[i] < q[j]

\* C10: pending migrations are applied in ascending file-name order and
\* each is recorded; the first one that fails ends the run with a non-zero
\* status, nothing after it is applied and no recorded migration is rolled
\* back.
C10_FailFast ==
    [][\A r \in Procs :
         LET ns == proc[r].ormConfig.schema
         IN  /\ (proc[r].pc = "apply" /\ proc'[r] # proc[r]) =>
                  \/ /\ proc'[r].pc \in {"apply", "close"}
                     /\ \A m \in Range(Tail(proc[r].queue)) : Head(proc[r].queue) < m
                     /\ proc'[r].appliedNow = Append(proc[r].appliedNow, Head(proc[r].queue))
                     /\ db'[ns].applied = Append(db[ns].applied, Head(proc[r].queue))
                     /\ proc'[r].queue = Tail(proc[r].queue)
                  \/ /\ proc'[r].pc = "exited"
                     /\ proc'[r].exitCode = <<1>>
                     /\ proc'[r].appliedNow = proc[r].appliedNow
                     /\ db' = db
             /\ Ascending(proc'[r].appliedNow)
             /\ proc[r].pc = "exited" => proc'[r] = proc[r]]_vars

\* the first migration was applied, the second failed: the run has ended
\* with status 1 and the first is still recorded
C10_Witness ==
    \E r \in Procs :
        /\ proc[r].pc = "exited"
        /\ proc[r].exitCode = <<1>>
        /\ proc[r].failedAt = "up"
        /\ proc[r].appliedNow = <<1>>
        /\ Exists(db, proc[r].ormConfig.schema)
        /\ db[proc[r].ormConfig.schema].applied = <<1>>

\* C11: every run that acquired a database connection has released it
\* (closed the ORM) when the process has ended, on the success path and on
\* every failure path.
C11_ReleasedAtExit ==
    \A r \in Procs : proc[r].pc = "exited" => ~proc[r].conn

\* C12: a run whose environment has no DATABASE_URL ends at once with a
\* configuration error and status 1: it opens no connection, issues no
\* statement and leaves the database as it was.
C12_NoUrlFailsFirst ==
    [][\A r \in Procs :
         (proc'[r] # proc[r] /\ ~Truthy(proc'[r].env.DATABASE_URL))
            => /\ proc[r].pc = "idle"
               /\ proc'[r].pc = "exited"
               /\ proc'[r].exitCode = <<1>>
               /\ proc'[r].error = "config"
               /\ proc'[r].failedAt \in {"import", "check"}
               /\ ~proc'[r].conn
               /\ ~proc'[r].upCalled
               /\ proc'[r].appliedNow = <<>>
               /\ db' = db]_vars

\* a run without DATABASE_URL, whose configuration module loaded thanks to
\* DATABASE_URL_WITH_SCHEMA, has been stopped by the check of runMigrations
C12_Witness ==
    \E r \in Procs :
        /\ proc[r].pc = "exited"
        /\ proc[r].env.DATABASE_URL = <<>>
        /\ proc[r].env.DATABASE_URL_WITH_SCHEMA # <<>>
        /\ proc[r].failedAt = "check"
        /\ proc[r].exitCode = <<1>>
        /\ ~proc[r].conn

\* C13: the process ends with status 0 exactly when no step failed: a step
\* that fails ends the process with status 1 at once, and status 0 is only
\* ever set by a close that succeeded, after the connection-string check,
\* the connect, the create statement and the pending query (and up(), when
\* something was pending) all succeeded.
C13_ExitZeroIffAllOk ==
    [][\A r \in Procs :
         proc'[r] # proc[r] =>
            /\ proc'[r].failedAt # "" =>
                  proc'[r].pc = "exited" /\ proc'[r].exitCode = <<1>>
            /\ proc'[r].pc = "exited" =>
                  /\ proc'[r].exitCode \in {<<0>>, <<1>>}
                  /\ proc'[r].exitCode = <<0>> <=> proc'[r].failedAt = ""
            /\ proc'[r].exitCode = <<0>> =>
                  /\ proc[r].pc = "close"
                  /\ Truthy(proc[r].env.DATABASE_URL)
                  /\ proc[r].conn /\ ~proc'[r].conn
                  /\ proc[r].pending # <<>> => proc[r].upCalled
            /\ proc[r].pc = "idle" => proc'[r].pc \in {"init", "exited"}
            /\ proc[r].pc = "init" => proc'[r].pc \in {"create", "exited"}
            /\ proc[r].pc = "create" => proc'[r].pc \in {"pending", "exited"}
            /\ proc[r].pc = "pending" => proc'[r].pc \in {"up", "close", "exited"}
            /\ proc[r].pc = "up" => proc'[r].pc \in {"apply", "close", "exited"}
            /\ proc[r].pc = "apply" => proc'[r].pc \in {"apply", "close", "exited"}
            /\ proc[r].pc = "close" => proc'[r].pc = "exited"]_vars

\* one run has ended with status 0 after applying every migration, and
\* another has ended with status 1 because its close failed
C13_Witness ==
    /\ proc[1].pc = "exited" /\ proc[1].exitCode = <<0>>
    /\ Len(proc[1].appliedNow) = NumMigrations
    /\ proc[2].pc = "exited" /\ proc[2].exitCode = <<1>>
    /\ proc[2].failedAt = "close"

\* the cleanup run of pull request n that this step is
TeardownStep(n) ==
    /\ proc' = proc
    /\ cleanup' # <<>>
    /\ cleanup'[1] = n
    /\ cleanup' # cleanup \/ DOMAIN db' # DOMAIN db

\* C14: the teardown is idempotent: on a schema that does not exist the
\* drop statement raises no error and changes nothing, and dropping twice
\* leaves the database that dropping once leaves.
C14_TeardownIdempotent ==
    [][\A n \in PRs :
         LET once == DropSchemaIfExistsCascade(db, CleanupSchema(n))
             twice == DropSchemaIfExistsCascade(once[2], CleanupSchema(n))
         IN  /\ once[1] = "ok" => (twice[1] = "ok" /\ twice[2] = once[2])
             /\ TeardownStep(n) =>
                   /\ cleanup'[2] \in {"ok", "db"}
                   /\ ~Exists(db, CleanupSchema(n)) => db' = db
                   /\ cleanup'[2] = "ok" => db' = once[2]]_vars

\* the cleanup of a pull request has succeeded although no build ever
\* created its pr_<n> schema
C14_Witness ==
    \E n \in PRs :
        /\ cleanup # <<>>
        /\ cleanup[1] = n /\ cleanup[2] = "ok"
        /\ CleanupSchema(n) \notin createdFor[n]
        /\ ~Exists(db, CleanupSchema(n))

\* C15: the teardown of pull request n removes pr_<n> with everything in
\* it and nothing else: every other schema exists afterwards and holds what
\* it held before; a teardown that could not reach the database changes
\* nothing.
C15_TeardownOnlyOwn ==
    [][\A n \in PRs :
         TeardownStep(n) =>
            IF cleanup'[2] = "db"
            THEN db' = db
            ELSE /\ ~Exists(db', CleanupSchema(n))
                 /\ DOMAIN db' = DOMAIN db \ {CleanupSchema(n)}
                 /\ \A m \in DOMAIN db' : db'[m] = db[m]]_vars

\* pr_7, which a build had migrated, is gone after the cleanup of pull
\* request 7, while pr_42 still holds its tables and tracking rows
C15_Witness ==
    /\ cleanup # <<>>
    /\ cleanup[1] = 7 /\ cleanup[2] = "ok"
    /\ ~Exists(db, CleanupSchema(7))
    /\ \E r \in Procs : /\ proc[r].ormConfig.schema = CleanupSchema(7)
                         /\ proc[r].appliedNow # <<>>
    /\ Exists(db, CleanupSchema(42))
    /\ db[CleanupSchema(42)].applied # <<>>
    /\ db[CleanupSchema(42)].tables # {}

\* the schemas a run names: in its create statement and in its ORM
\* configuration
Own(p) == {p.schemaName, p.ormConfig.schema, p.ormConfig.searchPath}

\* C16: schemas are isolated: whatever other builds run at the same time,
\* a step of a run creates, reads and writes only the schemas the run
\* names; every other schema exists as before with the same tables, rows
\* and tracking rows; and a run that ends with status 0 leaves its schema
\* with every migration recorded.
C16_Isolated ==
    [][\A r \in Procs :
         proc'[r] # proc[r] =>
            /\ \A n \in DOMAIN db \ Own(proc'[r]) : Exists(db', n) /\ db'[n] = db[n]
            /\ DOMAIN db' \subseteq DOMAIN db \cup Own(proc'[r])
            /\ (proc[r].pc = "pending" /\ proc'[r].pc # "exited") =>
                  proc'[r].pending = PendingIn(db, proc[r].ormConfig.schema)
            /\ proc'[r].exitCode = <<0>> =>
                  FullyMigrated(db', proc[r].ormConfig.schema)]_vars

\* two builds are running at the same time in different schemas: one has
\* applied every migration and is about to close, the other has applied
\* the first and is about to apply the second; each schema holds exactly
\* what its own build wrote
C16_Witness ==
    /\ proc[1].pc = "close" /\ proc[2].pc = "apply"
    /\ proc[1].ormConfig.schema # proc[2].ormConfig.schema
    /\ proc[1].schemaName = proc[1].ormConfig.schema
    /\ proc[2].schemaName = proc[2].ormConfig.schema
    /\ Len(proc[1].appliedNow) = NumMigrations
    /\ proc[2].appliedNow = <<1>>
    /\ db[proc[1].ormConfig.schema].applied = proc[1].appliedNow
    /\ db[proc[2].ormConfig.schema].applied = <<1>>

-----------------------------------------------------------------------------
(* Further properties of the resolver, checked under SpecResolve *)

\* C17: the pull-request strategy is collision-free: a resolution made
\* without an override returns the pr_<id> of a pull request only when it
\* was made for that pull request, that is with that id as its pull-request
\* signal; no branch name resolves to some pull request's pr_<id>.
C17_PrCollisionFree ==
    (resolved # <<>> /\ NoOverride) =>
        \A p \in PrIdValues :
            (Truthy(p) /\ resolved[1] = PR_ \o p[1])
                => callerEnv.VERCEL_GIT_PULL_REQUEST_ID = p

\* the identifiers no deployment may take
Reserved == {PG_CATALOG, INFORMATION_SCHEMA}

\* C18: for every combination of signals the result is neither pg_catalog
\* nor information_schema.
C18_NeverReserved == resolved # <<>> => resolved[1] \notin Reserved

\* C19: sanitizing is idempotent: for every branch name x,
\* sanitizeBranchName(sanitizeBranchName(x)) = sanitizeBranchName(x); in
\* particular the identifier a branch resolves to is a fixed point.
C19_SanitizeIdempotent ==
    (resolved # <<>> /\ callerEnv.VERCEL_GIT_COMMIT_REF # <<>>) =>
        LET x == callerEnv.VERCEL_GIT_COMMIT_REF[1]
        IN  /\ sanitizeBranchName(sanitizeBranchName(x)) = sanitizeBranchName(x)
            /\ BranchOnly => sanitizeBranchName(resolved[1]) = resolved[1]

\* a branch that sanitizing changes and truncates has been resolved, and
\* sanitizing the result again returns it
C19_Witness ==
    /\ BranchOnly
    /\ callerEnv.VERCEL_GIT_COMMIT_REF = <<Repeat("-", SanitizeLimit + 1)>>
    /\ resolved = <<Repeat("_", SanitizeLimit)>>
    /\ sanitizeBranchName(resolved[1]) = resolved[1]

\* C20: with no override, no pull-request id and no branch (each unset or
\* empty) getSchemaName returns 'public'.
C20_NoSignalIsPublic ==
    (/\ resolved # <<>>
     /\ NoOverride
     /\ NoPrId
     /\ ~Truthy(callerEnv.VERCEL_GIT_COMMIT_REF))
        => resolved = <<PUBLIC>>

\* none of the three variables is set and the call has returned public
C20_Witness ==
    /\ callerEnv.DB_SCHEMA = <<>>
    /\ callerEnv.VERCEL_GIT_PULL_REQUEST_ID = <<>>
    /\ callerEnv.VERCEL_GIT_COMMIT_REF = <<>>
    /\ resolved = <<PUBLIC>>

\* a signal that is set to a non-empty string
Present(v) == Len(v) = 1 /\ Len(v[1]) > 0

\* a signal that is set to the empty string
SetEmpty(v) == Len(v) = 1 /\ Len(v[1]) = 0

\* C21: a signal set to the empty string is treated as absent: it is never
\* selected, resolution falls through to the next signal that is set and
\* non-empty, and the result is never the empty string (and never a bare
\* 'pr_' built from an empty pull-request id).
C21_EmptyIsAbsent ==
    LET o == callerEnv.DB_SCHEMA
        p == callerEnv.VERCEL_GIT_PULL_REQUEST_ID
        b == callerEnv.VERCEL_GIT_COMMIT_REF
    IN  (resolved # <<>> /\ (SetEmpty(o) \/ SetEmpty(p) \/ SetEmpty(b))) =>
            /\ resolved[1] # <<>>
            /\ resolved[1] =
                  IF Present(o) THEN o[1]
                  ELSE IF Present(p) THEN PR_ \o p[1]
                  ELSE IF Present(b) THEN sanitizeBranchName(b[1])
                  ELSE PUBLIC
            /\ (SetEmpty(p) /\ resolved[1] = PR_) => Present(o) \/ Present(b)

\* an empty override and an empty pull-request id were passed over and the
\* branch feature/x has resolved to feature_x
C21_Witness ==
    /\ callerEnv.DB_SCHEMA = <<<<>>>>
    /\ callerEnv.VERCEL_GIT_PULL_REQUEST_ID = <<<<>>>>
    /\ callerEnv.VERCEL_GIT_COMMIT_REF = <<FEATURE_X>>
    /\ resolved = <<<<"f","e","a","t","u","r","e","_","x">>>>

-----------------------------------------------------------------------------
(* The configuration module evaluated in an arbitrary environment *)

DB_URL_Q == DB_URL \o <<QMARK, "s", "s", "l">>

UrlEnvs ==
    {MkEnv(o, p, b, u, w) :
        o \in {<<>>, <<PUBLIC>>},
        p \in {<<>>, <<FORTY_TWO>>},
        b \in {<<>>, <<FEATURE_X>>, <<PR_DASH_42>>},
        u \in {<<>>, <<<<>>>>, <<DB_URL>>, <<DB_URL_Q>>},
        w \in {<<>>, <<<<>>>>, <<DEV_URL>>}}

InitUrl ==
    /\ callerEnv \in UrlEnvs
    /\ resolved = <<>>
    /\ dbUrl = <<>>
    /\ app = InitApp
    /\ InitBuild
    /\ cfg = "url"

\* clientUrl: getDatabaseUrl(), evaluated when the module is imported
EvalConfig ==
    /\ dbUrl = <<>>
    /\ dbUrl' = <<getDatabaseUrl(callerEnv)>>
    /\ UNCHANGED <<callerEnv, resolved, app, buildVars>>

NextUrl == EvalConfig

SpecUrl == InitUrl /\ [][NextUrl]_vars

\* C22: getDatabaseUrl returns DATABASE_URL_WITH_SCHEMA unchanged whenever
\* it is set (non-empty), whatever else is set; otherwise it throws when
\* DATABASE_URL is absent, and else returns DATABASE_URL, then '?' (or '&'
\* when DATABASE_URL already contains '?'), then 'schema=' and the result
\* of getSchemaName().
C22_DatabaseUrl ==
    LET u == callerEnv.DATABASE_URL
        w == callerEnv.DATABASE_URL_WITH_SCHEMA
    IN  dbUrl # <<>> =>
            dbUrl[1] =
                IF Present(w) THEN <<"ok", w[1]>>
                ELSE IF ~Present(u) THEN <<"throw">>
                ELSE <<"ok", u[1]
                             \o (IF \E i \in DOMAIN u[1] : u[1][i] = "?"
                                 THEN <<"&">> ELSE <<"?">>)
                             \o <<"s","c","h","e","m","a","=">>
                             \o getSchemaName(callerEnv)>>

\* for DATABASE_URL=db?ssl and pull request 42 the module has computed
\* db?ssl&schema=pr_42
C22_Witness ==
    /\ callerEnv.DATABASE_URL = <<DB_URL_Q>>
    /\ callerEnv.DATABASE_URL_WITH_SCHEMA = <<>>
    /\ callerEnv.DB_SCHEMA = <<>>
    /\ callerEnv.VERCEL_GIT_PULL_REQUEST_ID = <<FORTY_TWO>>
    /\ dbUrl = << <<"ok", <<"d","b","?","s","s","l","&",
                           "s","c","h","e","m","a","=","p","r","_","4","2">> >> >>

-----------------------------------------------------------------------------
(* Builds of the same schema at the same time, checked under SpecInterleaved *)

\* C23: two runs of the same schema are not serialized: no run ever waits
\* for another (whatever the other runs are doing, the next step of a
\* running build can be taken), so both can read the same migration as
\* pending before either records it and both go on to apply it.
C23_NotSerialized ==
    \A r \in Procs : Running(r) => ENABLED Build(r)

\* both runs of one schema have queued migration 1, which neither has
\* recorded yet, and each is about to apply it
C23_Witness ==
    /\ proc[1].pc = "apply" /\ proc[2].pc = "apply"
    /\ proc[1].ormConfig.schema = proc[2].ormConfig.schema
    /\ proc[1].pending = proc[2].pending
    /\ Head(proc[1].queue) = 1 /\ Head(proc[2].queue) = 1
    /\ db[proc[1].ormConfig.schema].applied = <<>>

-----------------------------------------------------------------------------
(* src/lib/db.ts: getORM in the runtime process.  The handlers of          *)
(* app/page.tsx (Home, addTodo, toggleTodo, deleteTodo) each call getORM;  *)
(* requests overlap at the await.  An ORM instance is named by the number  *)
(* of the MikroORM.init call that made it.                                 *)

MaxInits == 3

\* getORM up to its await: if (!orm) { ... MikroORM.init(config) is called;
\* otherwise return orm
GetOrmEnter(c) ==
    /\ app.req[c].pc = "idle"
    /\ IF app.orm = 0
       THEN /\ app.inits < MaxInits
            /\ app' = [app EXCEPT !.inits = @ + 1,
                                  !.req[c] = [pc |-> "await", inst |-> app.inits + 1,
                                              got |-> 0]]
       ELSE app' = [app EXCEPT !.req[c] = [pc |-> "done", inst |-> 0, got |-> app.orm]]
    /\ UNCHANGED <<callerEnv, resolved, dbUrl, buildVars>>

\* the await ends: orm = <the new instance>; return orm; or init rejected
\* and getORM rejects, leaving orm as it is
GetOrmResume(c) ==
    /\ app.req[c].pc = "await"
    /\ \E ok \in BOOLEAN :
         IF ok
         THEN app' = [app EXCEPT !.orm = app.req[c].inst,
                                 !.req[c] = [pc |-> "done", inst |-> 0,
                                             got |-> app.req[c].inst]]
         ELSE app' = [app EXCEPT !.fails = @ + 1,
                                 !.req[c] = [pc |-> "failed", inst |-> 0, got |-> 0]]
    /\ UNCHANGED <<callerEnv, resolved, dbUrl, buildVars>>

\* the handler that called getORM ends; a later request may call again
HandlerEnds(c) ==
    /\ app.req[c].pc \in {"done", "failed"}
    /\ app' = [app EXCEPT !.req[c] = IdleCaller]
    /\ UNCHANGED <<callerEnv, resolved, dbUrl, buildVars>>

NextRuntime ==
    \/ \E c \in Callers : GetOrmEnter(c)
    \/ \E c \in Callers : GetOrmResume(c)
    \/ \E c \in Callers : HandlerEnds(c)

SpecRuntime == Init /\ [][NextRuntime]_vars

\* C24: getORM is a process-wide singleton: MikroORM.init is invoked at
\* most once (not counting calls that rejected), also when calls overlap
\* during the first initialization, and all callers that hold an instance
\* hold the same one.
C24_Singleton ==
    /\ app.inits - app.fails <= 1
    /\ \A c1, c2 \in Callers :
          (app.req[c1].pc = "done" /\ app.req[c2].pc = "done")
             => app.req[c1].got = app.req[c2].got

-----------------------------------------------------------------------------
(* Order of the steps of one run, checked under Spec *)

\* C25: within one run the steps come in a fixed order: the create
\* statement is issued after the connect and has completed before the
\* pending query; the pending query has completed before up() and before
\* any migration is applied; the connection is closed only after the last
\* migration step; and a run that has applied a migration has issued its
\* create statement before.
C25_FixedOrder ==
    [][\A r \in Procs :
         proc'[r] # proc[r] =>
            /\ proc'[r].pc = "create" => proc[r].pc = "init"
            /\ proc'[r].pc = "pending" =>
                  proc[r].pc = "create" /\ Exists(db', proc[r].schemaName)
            /\ proc'[r].pc = "up" => proc[r].pc = "pending"
            /\ proc'[r].pc = "apply" => proc[r].pc \in {"up", "apply"}
            /\ proc'[r].appliedNow # proc[r].appliedNow =>
                  /\ proc[r].pc = "apply"
                  /\ proc[r].upCalled
                  /\ proc[r].existed \/ proc[r].schemaName \in createdFor[proc[r].pr]
            /\ proc'[r].pc = "close" =>
                  /\ proc[r].pc \in {"pending", "up", "apply"}
                  /\ proc'[r].queue = <<>>
            /\ (proc[r].conn /\ ~proc'[r].conn) =>
                  proc[r].pc = "close" /\ proc[r].queue = <<>>]_vars

\* a run has created its schema, applied every migration to it, closed
\* the connection and ended with status 0
C25_Witness ==
    \E r \in Procs :
        /\ proc[r].pc = "exited" /\ proc[r].exitCode = <<0>>
        /\ ~proc[r].existed
        /\ proc[r].schemaName \in createdFor[proc[r].pr]
        /\ Len(proc[r].appliedNow) = NumMigrations
        /\ ~proc[r].conn

-----------------------------------------------------------------------------
(* The cleanup and builds in flight, checked under Spec *)

\* C26: once the cleanup of pull request n has completed and every build
\* of n had been started before it and has ended, pr_<n> does not exist,
\* wherever the drop statement fell among the steps of a build in flight.
C26_GoneAfterClose ==
    \A n \in PRs :
        (/\ cleanup # <<>>
         /\ cleanup[1] = n
         /\ cleanup[2] = "ok"
         /\ \A r \in Procs :
               proc[r].pr = n => (r \in cleanup[3] /\ proc[r].pc = "exited"))
            => ~Exists(db, CleanupSchema(n))

\* every migration file, in file-name order
AllMigrations == [i \in 1..NumMigrations |-> i]

PassedCreate(p) ==
    \/ p.pc \in {"pending", "up", "apply", "close"}
    \/ p.pc = "exited" /\ p.failedAt \in {"pending", "up", "close", ""}

PassedPending(p) ==
    \/ p.pc \in {"up", "apply", "close"}
    \/ p.pc = "exited" /\ p.failedAt \in {"up", "close", ""}

\* run r has created anew a schema that an earlier run had created or
\* found: the cleanup dropped it in between
Recreated(r) ==
    /\ PassedCreate(proc[r])
    /\ ~proc[r].existed
    /\ \E q \in Procs : /\ q < r
                         /\ PassedCreate(proc[q])
                         /\ proc[q].schemaName = proc[r].schemaName

\* C27: the teardown resets the migration state of a schema: a run that
\* follows the teardown of pr_<n> creates the schema again, finds every
\* migration pending and, when it ends with status 0, has applied them
\* all: no tracking row survives outside the dropped schema.
C27_TeardownResets ==
    \A r \in Procs :
        Recreated(r) =>
            /\ proc[r].schemaName = CleanupSchema(proc[r].pr)
            /\ PassedPending(proc[r]) => proc[r].pending = AllMigrations
            /\ (proc[r].pc = "exited" /\ proc[r].exitCode = <<0>>)
                  => proc[r].appliedNow = AllMigrations

\* the first build migrated pr_7, the cleanup dropped it, and the second
\* build has created pr_7 again, applied every migration and ended with
\* status 0
C27_Witness ==
    /\ proc[1].exitCode = <<0>> /\ proc[1].appliedNow = AllMigrations
    /\ proc[1].schemaName = CleanupSchema(7)
    /\ cleanup # <<>> /\ cleanup[1] = 7 /\ cleanup[2] = "ok" /\ cleanup[3] = {1}
    /\ proc[2].schemaName = CleanupSchema(7)
    /\ Recreated(2)
    /\ proc[2].pending = AllMigrations
    /\ proc[2].appliedNow = AllMigrations
    /\ proc[2].exitCode = <<0>>
    /\ Exists(db, CleanupSchema(7))
    /\ db[CleanupSchema(7)].applied = AllMigrations

=============================================================================
